---- MODULE Spec2Model ----
(***************************************************************************)
(* Model of the practice-lab scripts 00_init_assistant.py and              *)
(* 02_structured_output.py.  Text is a sequence of characters; the remote  *)
(* service is the environment: every remote call either raises or returns  *)
(* a value drawn from a small set.                                          *)
(***************************************************************************)
EXTENDS Integers, Sequences, FiniteSets, TLC

(***************************************************************************)
(* Python str operations used by the fence-stripping step.                 *)
(***************************************************************************)
\* the grave accent U+0060, written by name: the character itself cannot
\* stand in a TLA+ string
Backtick == "BACKTICK"

Fence == <<Backtick, Backtick, Backtick>>

FenceJson == Fence \o <<"j", "s", "o", "n">>

\* the whitespace json.loads skips between tokens
JsonWhitespace == {" ", "\n", "\t", "\r"}

\* characters without an escape in a TLA+ string, written by code point
ControlSpaces == {"U+000B", "U+001C", "U+001D", "U+001E", "U+001F"}

UnicodeSpaces ==
    {"U+0085", "U+00A0", "U+1680", "U+2000", "U+2001", "U+2002", "U+2003",
     "U+2004", "U+2005", "U+2006", "U+2007", "U+2008", "U+2009", "U+200A",
     "U+2028", "U+2029", "U+202F", "U+205F", "U+3000"}

\* the control characters that are no whitespace for str.strip()
OtherControls ==
    {"U+0000", "U+0001", "U+0002", "U+0003", "U+0004", "U+0005", "U+0006",
     "U+0007", "U+0008", "U+000E", "U+000F", "U+0010", "U+0011", "U+0012",
     "U+0013", "U+0014", "U+0015", "U+0016", "U+0017", "U+0018", "U+0019",
     "U+001A", "U+001B"}

\* every character below U+0020: json.loads rejects them inside a string
ControlChars ==
    {"\n", "\t", "\r", "\f"} \cup ControlSpaces \cup OtherControls

\* characters removed by str.strip(): those for which str.isspace() is true
Whitespace ==
    {" ", "\n", "\t", "\r", "\f"} \cup ControlSpaces \cup UnicodeSpaces

\* s[i .. i+len(sep)-1] == sep
MatchAt(s, sep, i) ==
    /\ i >= 1
    /\ i + Len(sep) - 1 <= Len(s)
    /\ \A k \in 1..Len(sep) : s[i + k - 1] = sep[k]

\* str.find, 1-based; 0 when sep does not occur
Find(s, sep) ==
    LET hits == {i \in 1..Len(s) : MatchAt(s, sep, i)}
    IN  IF hits = {} THEN 0 ELSE CHOOSE i \in hits : \A j \in hits : i <= j

\* sep in s
Contains(s, sep) == Find(s, sep) # 0

\* s.split(sep)[0] : the text before the first occurrence of sep
SplitFirst(s, sep) ==
    IF Find(s, sep) = 0 THEN s ELSE SubSeq(s, 1, Find(s, sep) - 1)

\* s.split(sep)[1] : the text between the first and the second occurrence
SplitSecond(s, sep) ==
    SplitFirst(SubSeq(s, Find(s, sep) + Len(sep), Len(s)), sep)

\* s.strip()
Strip(s) ==
    LET keep == {i \in 1..Len(s) : s[i] \notin Whitespace}
    IN  IF keep = {} THEN <<>>
        ELSE SubSeq(s, CHOOSE i \in keep : \A j \in keep : i <= j,
                       CHOOSE i \in keep : \A j \in keep : i >= j)

\* the cleaning step of demonstrate_json_mode
StripFences(response_content) ==
    LET a == IF Contains(response_content, FenceJson)
             THEN SplitSecond(response_content, FenceJson)
             ELSE response_content
        b == IF Contains(a, Fence) THEN SplitFirst(a, Fence) ELSE a
    IN  Strip(b)

(***************************************************************************)
(* json.loads on the subset: objects, strings without backslash, unsigned     *)
(* integers and null.  A parsed value is its canonical text (no whitespace  *)
(* outside strings); a parsed object also carries its members as a          *)
(* sequence of <<key, canonical value text>>, later duplicates of a key     *)
(* overwriting the earlier value as in a Python dict.                       *)
(***************************************************************************)
Digits == {"0", "1", "2", "3", "4", "5", "6", "7", "8", "9"}

NullText == <<"n", "u", "l", "l">>

ParseError == [ok |-> FALSE, kind |-> "error", text |-> <<>>, pairs |-> <<>>, next |-> 0]

\* first index >= i that is not whitespace (Len(s)+1 when there is none)
SkipWs(s, i) ==
    LET rest == {k \in i..Len(s) : s[k] \notin JsonWhitespace}
    IN  IF rest = {} THEN Len(s) + 1 ELSE CHOOSE k \in rest : \A j \in rest : k <= j

\* s[i] is the opening quote; the string ends at the next quote
ParseString(s, i) ==
    LET closing == {k \in (i + 1)..Len(s) : s[k] = "\""}
        j == CHOOSE k \in closing : \A m \in closing : k <= m
    IN  IF closing = {} \/ \E k \in (i + 1)..(j - 1) : s[k] \in ControlChars
        THEN ParseError
        ELSE [ok |-> TRUE, kind |-> "str", text |-> SubSeq(s, i, j),
              pairs |-> <<>>, next |-> j + 1]

\* s[i] is a digit; a number is "0" or a run of digits not starting with 0
ParseNumber(s, i) ==
    LET stop == {k \in i..Len(s) : s[k] \notin Digits}
        j == IF stop = {} THEN Len(s) + 1 ELSE CHOOSE k \in stop : \A m \in stop : k <= m
    IN  IF s[i] = "0"
        THEN [ok |-> TRUE, kind |-> "num", text |-> <<"0">>, pairs |-> <<>>, next |-> i + 1]
        ELSE [ok |-> TRUE, kind |-> "num", text |-> SubSeq(s, i, j - 1),
              pairs |-> <<>>, next |-> j]

\* dict assignment d[key] = value on a sequence of pairs
SetPair(pairs, key, value) ==
    IF \E k \in 1..Len(pairs) : pairs[k][1] = key
    THEN [k \in 1..Len(pairs) |-> IF pairs[k][1] = key THEN <<key, value>> ELSE pairs[k]]
    ELSE Append(pairs, <<key, value>>)

RECURSIVE PairsText(_)
\* canonical text of the members of an object
PairsText(pairs) ==
    IF pairs = <<>> THEN <<>>
    ELSE pairs[1][1] \o <<":">> \o pairs[1][2]
         \o (IF Len(pairs) > 1 THEN <<",">> ELSE <<>>) \o PairsText(Tail(pairs))

RECURSIVE ParseValue(_, _)
RECURSIVE ParseMembers(_, _, _)

\* i is the index of the first character of the key of a member (after whitespace)
ParseMembers(s, i, pairs) ==
    IF i > Len(s) \/ s[i] # "\"" THEN ParseError
    ELSE LET key == ParseString(s, i)
             colon == SkipWs(s, key.next)
         IN  IF ~key.ok \/ colon > Len(s) \/ s[colon] # ":" THEN ParseError
             ELSE LET val == ParseValue(s, SkipWs(s, colon + 1))
                      after == SkipWs(s, val.next)
                      acc == SetPair(pairs, key.text, val.text)
                  IN  IF ~val.ok \/ after > Len(s) THEN ParseError
                      ELSE IF s[after] = ","
                           THEN ParseMembers(s, SkipWs(s, after + 1), acc)
                      ELSE IF s[after] = "}"
                           THEN [ok |-> TRUE, kind |-> "obj",
                                 text |-> <<"{">> \o PairsText(acc) \o <<"}">>,
                                 pairs |-> acc, next |-> after + 1]
                      ELSE ParseError

\* i is the index of the first character of the value (after whitespace)
ParseValue(s, i) ==
    IF i > Len(s) THEN ParseError
    ELSE IF s[i] = "\"" THEN ParseString(s, i)
    ELSE IF s[i] \in Digits THEN ParseNumber(s, i)
    ELSE IF MatchAt(s, NullText, i)
         THEN [ok |-> TRUE, kind |-> "null", text |-> NullText, pairs |-> <<>>, next |-> i + 4]
    ELSE IF s[i] = "{"
         THEN IF SkipWs(s, i + 1) <= Len(s) /\ s[SkipWs(s, i + 1)] = "}"
              THEN [ok |-> TRUE, kind |-> "obj", text |-> <<"{", "}">>,
                    pairs |-> <<>>, next |-> SkipWs(s, i + 1) + 1]
              ELSE ParseMembers(s, SkipWs(s, i + 1), <<>>)
    ELSE ParseError

\* the result of json.loads when it raises JSONDecodeError
JSONDecodeError == [ok |-> FALSE, kind |-> "error", text |-> <<>>, pairs |-> <<>>]

\* json.loads(s): one value surrounded by optional whitespace
Loads(s) ==
    LET val == ParseValue(s, SkipWs(s, 1))
    IN  IF val.ok /\ SkipWs(s, val.next) > Len(s)
        THEN [ok |-> TRUE, kind |-> val.kind, text |-> val.text, pairs |-> val.pairs]
        ELSE JSONDecodeError

(***************************************************************************)
(* Texts the remote model may answer with in demonstrate_json_mode.         *)
(***************************************************************************)
Q(name) == <<"\"">> \o name \o <<"\"">>

Member(name, value) == Q(name) \o <<":">> \o value

Location == <<"l", "o", "c", "a", "t", "i", "o", "n">>

Severity == <<"s", "e", "v", "e", "r", "i", "t", "y">>

AlertType == <<"a", "l", "e", "r", "t", "_", "t", "y", "p", "e">>

Description == <<"d", "e", "s", "c", "r", "i", "p", "t", "i", "o", "n">>

Advice == <<"a", "d", "v", "i", "c", "e">>

ExpiresAt == <<"e", "x", "p", "i", "r", "e", "s", "_", "a", "t">>

\* {}
ObjEmpty == <<"{", "}">>

\* {"a":1}
ObjA == <<"{">> \o Member(<<"a">>, <<"1">>) \o <<"}">>

\* { "a" : 1,\n"b":null }
ObjSpaced ==
    <<"{", " ", "\"", "a", "\"", " ", ":", " ", "1", ",", "\n", "\"", "b",
      "\"", ":", "n", "u", "l", "l", " ", "}">>

\* {"a":"..."} where the string value is three grave accents
ObjTicks == <<"{">> \o Member(<<"a">>, Q(Fence)) \o <<"}">>

AlertCore ==
    Member(Location, Q(<<"c">>)) \o <<",">> \o Member(Severity, Q(<<"h">>))
    \o <<",">> \o Member(AlertType, Q(<<"t">>))
    \o <<",">> \o Member(Description, Q(<<"d">>))
    \o <<",">> \o Member(Advice, Q(<<"a">>))

\* a weather alert with every field, expires_at being null
ObjAlert == <<"{">> \o AlertCore \o <<",">> \o Member(ExpiresAt, NullText) \o <<"}">>

\* a weather alert without the expires_at member
ObjAlertNoExpiry == <<"{">> \o AlertCore \o <<"}">>

\* valid JSON that is not an object
Scalar == <<"7">>

\* not JSON
Prose == <<"n", "o">>

\* {"a":1} between two form feeds: str.strip() removes them
ObjInFormFeeds == <<"\f">> \o ObjA \o <<"\f">>

\* {"a":1} with a line tabulation after the brace: not JSON whitespace
ObjWithLineTab == <<"{", "U+000B">> \o Member(<<"a">>, <<"1">>) \o <<"}">>

\* {"a":"<ESC>"} : a control character inside a string is not JSON
ObjWithEscapeChar == <<"{">> \o Member(<<"a">>, Q(<<"U+001B">>)) \o <<"}">>

ObjectBodies == {ObjEmpty, ObjA, ObjSpaced, ObjTicks, ObjAlert, ObjAlertNoExpiry}

Bodies == ObjectBodies \cup {Scalar, Prose, ObjInFormFeeds, ObjWithLineTab,
                              ObjWithEscapeChar}

\* opening fences: with the json tag, without it, and after a line of prose
OpenTagged == FenceJson \o <<"\n">>

OpenPlain == Fence \o <<"\n">>

OpenAfterProse == <<"o", "k", ":", "\n">> \o FenceJson \o <<"\n">>

CloseFence == <<"\n">> \o Fence

Responses ==
    {open \o body \o close :
        open \in {<<>>, OpenTagged, OpenPlain, OpenAfterProse},
        body \in Bodies,
        close \in {<<>>, CloseFence}}

(***************************************************************************)
(* State of one run of a script.                                           *)
(***************************************************************************)
VARIABLES
    script,            \* which script runs: "00" or "02"
    pc,                \* position in the script
    apiKey,            \* OPENAI_API_KEY after load_dotenv: "absent", "empty", "set"
    dataDir,           \* the path data: "absent", "dir" or "file"
    pdf,               \* data/topology.pdf: "absent" or its contents
    assistantFile,     \* .assistant: [exists, text]
    notesFile,         \* data/exam_notes.json: [exists, notes]
    clients,           \* number of OpenAI clients constructed
    requests,          \* remote API requests issued so far
    printed,           \* messages printed so far
    exitCode,          \* Running until the process ends, then its exit status
    exc,               \* the exception in flight or uncaught, "none" otherwise
    tools,             \* the tool list of the remote assistant
    assistant_id,      \* main: the identifier read from .assistant
    json_result,       \* main: result of demonstrate_json_mode
    function_result,   \* main: result of demonstrate_function_tools_strict
    notes_result,      \* value returned by generate_exam_notes
    runStatus,         \* run.status of the function being executed
    toolCalls,         \* run.required_action.submit_tool_outputs.tool_calls
    tool_outputs,      \* demonstrate_function_tools_strict: tool_outputs
    polls,             \* retrievals made inside the wait loop
    sleeps,            \* time.sleep(1) calls made by the wait loop
    response_content,  \* demonstrate_json_mode: response_content
    cleaned_content,   \* demonstrate_json_mode: cleaned_content
    notes_data,        \* generate_exam_notes: notes_data
    exam_notes,        \* generate_exam_notes: exam_notes
    assistant,         \* create_or_update_assistant: assistant.id, <<>> before
    linked             \* the vector store last linked, and to which assistant

vars ==
    <<script, pc, apiKey, dataDir, pdf, assistantFile, notesFile, clients,
      requests, printed, exitCode, exc, tools, assistant_id, json_result,
      function_result, notes_result, runStatus, toolCalls, tool_outputs,
      polls, sleeps, response_content, cleaned_content, notes_data, exam_notes,
      assistant, linked>>

\* exitCode while the process is running
Running == -1

\* the text written to data/topology.pdf when it is missing
SampleContent == "Sample PDF content for testing"

\* a function that has not returned yet, and the locals of a finished frame
Unset == [kind |-> "unset", text |-> <<>>]

NoneResult == [kind |-> "None", text |-> <<>>]

NoData == [parsed |-> FALSE, shape |-> "none", notes |-> <<>>]

NoNotes == [kind |-> "unset", data |-> NoData, notes |-> <<>>]

NoneNotes == [kind |-> "None", data |-> NoData, notes |-> <<>>]

NoExamNotes == [valid |-> FALSE, notes |-> <<>>]

\* no tool_resources update has been made
NotLinked == [assistant |-> <<>>, store |-> "none"]

AssistantFiles ==
    { [exists |-> FALSE, text |-> <<>>],
      [exists |-> TRUE, text |-> <<>>],
      [exists |-> TRUE, text |-> <<" ", "a", "1", "\n">>] }

Init ==
    /\ script \in {"00", "02"}
    /\ pc = "start"
    /\ apiKey \in {"absent", "empty", "set"}
    /\ dataDir \in {"absent", "dir", "file"}
    /\ pdf \in {"absent", "%PDF-1.4"}
    /\ (dataDir # "dir" => pdf = "absent")
    /\ assistantFile \in AssistantFiles
    /\ notesFile = [exists |-> FALSE, notes |-> <<>>]
    /\ clients = 0
    /\ requests = {}
    /\ printed = {}
    /\ exitCode = Running
    /\ exc = "none"
    /\ tools = <<"file_search">>
    /\ assistant_id = <<>>
    /\ json_result = Unset
    /\ function_result = Unset
    /\ notes_result = NoNotes
    /\ runStatus = "none"
    /\ toolCalls = <<>>
    /\ tool_outputs = <<>>
    /\ polls = 0
    /\ sleeps = 0
    /\ response_content = <<>>
    /\ cleaned_content = <<>>
    /\ notes_data = NoData
    /\ exam_notes = NoExamNotes
    /\ assistant = <<>>
    /\ linked = NotLinked

files == <<dataDir, pdf, assistantFile, notesFile>>

results == <<json_result, function_result, notes_result>>

jsonLocals == <<response_content, cleaned_content>>

fnLocals == <<tool_outputs, polls, sleeps>>

notesLocals == <<notes_data, exam_notes>>

env == <<script, apiKey>>

bootstrap == <<assistant, linked>>

\* not api_key
KeyMissing == apiKey \in {"absent", "empty"}

(***************************************************************************)
(* 00_init_assistant.py : main.  get_client ends the process when the key   *)
(* is missing; otherwise main prints the next steps and returns.            *)
(***************************************************************************)
Main00 ==
    /\ script = "00"
    /\ pc = "start"
    /\ pc' = "done"
    /\ IF KeyMissing
       THEN /\ printed' = printed \cup {"banner", "missing_key"}
            /\ exitCode' = 1
            /\ clients' = clients
       ELSE /\ printed' = printed \cup {"banner", "client_initialized", "next_steps"}
            /\ exitCode' = 0
            /\ clients' = clients + 1
    /\ UNCHANGED <<bootstrap, env, files, requests, exc, tools, assistant_id, results,
                   runStatus, toolCalls, fnLocals, jsonLocals, notesLocals>>

(***************************************************************************)
(* 02_structured_output.py : module level.                                  *)
(***************************************************************************)
EnsureDocumentAlwaysWrites(contents) == SampleContent

\* lines 32-36: the sample file is written only when the document is missing
EnsureDocument(contents) ==
    IF contents = "absent" THEN SampleContent ELSE contents

\* lines 24-38: the data directory and the sample document
DocumentSetup ==
    /\ script = "02"
    /\ pc = "start"
    /\ IF dataDir = "file"
       THEN /\ exc' = "FileExistsError"
            /\ exitCode' = 1
            /\ pc' = "done"
            /\ UNCHANGED <<dataDir, pdf, printed>>
       ELSE /\ dataDir' = "dir"
            /\ pdf' = EnsureDocument(pdf)
            /\ printed' = printed \cup
                  (IF pdf = "absent" THEN {"pdf_not_found", "using_pdf"}
                   ELSE {"using_pdf"})
            /\ pc' = "construct"
            /\ UNCHANGED <<exc, exitCode>>
    /\ UNCHANGED <<bootstrap, env, assistantFile, notesFile, clients, requests, tools,
                   assistant_id, results, runStatus, toolCalls, fnLocals,
                   jsonLocals, notesLocals>>

\* line 40: OpenAI() reads the key from the environment and raises when
\* the variable is not set
ModuleClient ==
    /\ script = "02"
    /\ pc = "construct"
    /\ IF apiKey = "absent"
       THEN /\ exc' = "OpenAIError"
            /\ exitCode' = 1
            /\ pc' = "done"
            /\ clients' = clients
       ELSE /\ clients' = clients + 1
            /\ pc' = "upload"
            /\ UNCHANGED <<exc, exitCode>>
    /\ UNCHANGED <<bootstrap, env, files, requests, printed, tools, assistant_id, results,
                   runStatus, toolCalls, fnLocals, jsonLocals, notesLocals>>

\* lines 43-49: open the document and upload it; any failure ends the process
Upload ==
    /\ script = "02"
    /\ pc = "upload"
    /\ \E ok \in BOOLEAN :
        IF pdf = "absent"
        THEN /\ printed' = printed \cup {"upload_error"}
             /\ exitCode' = 1
             /\ pc' = "done"
             /\ requests' = requests
        ELSE /\ requests' = requests \cup {"files.create"}
             /\ IF ok
                THEN /\ printed' = printed \cup {"file_uploaded"}
                     /\ pc' = "main"
                     /\ exitCode' = exitCode
                ELSE /\ printed' = printed \cup {"upload_error"}
                     /\ exitCode' = 1
                     /\ pc' = "done"
    /\ UNCHANGED <<bootstrap, env, files, clients, exc, tools, assistant_id, results,
                   runStatus, toolCalls, fnLocals, jsonLocals, notesLocals>>

\* lines 451-462: get_client and load_assistant_id, each ending the process
\* when what it needs is missing
Main02 ==
    /\ script = "02"
    /\ pc = "main"
    /\ IF KeyMissing
       THEN /\ printed' = printed \cup {"banner", "missing_key"}
            /\ exitCode' = 1
            /\ pc' = "done"
            /\ UNCHANGED <<clients, assistant_id>>
       ELSE /\ clients' = clients + 1
            /\ IF ~assistantFile.exists
               THEN /\ printed' = printed \cup {"banner", "no_assistant"}
                    /\ exitCode' = 1
                    /\ pc' = "done"
                    /\ assistant_id' = assistant_id
               ELSE /\ printed' = printed \cup {"banner", "using_assistant"}
                    /\ assistant_id' = Strip(assistantFile.text)
                    /\ pc' = "json_thread"
                    /\ exitCode' = exitCode
    /\ UNCHANGED <<bootstrap, env, files, requests, exc, tools, results, runStatus,
                   toolCalls, fnLocals, jsonLocals, notesLocals>>

(***************************************************************************)
(* main: an exception raised inside the try block runs the finally clause   *)
(* and then leaves main.                                                    *)
(***************************************************************************)
RaiseInTry(e) ==
    /\ exc' = e
    /\ pc' = "finally"

\* a frame that ends, by return or by exception, loses its locals
DropLocals ==
    /\ runStatus' = "none"
    /\ toolCalls' = <<>>
    /\ tool_outputs' = <<>>
    /\ polls' = 0
    /\ sleeps' = 0
    /\ response_content' = <<>>
    /\ cleaned_content' = <<>>
    /\ notes_data' = NoData
    /\ exam_notes' = NoExamNotes

KeepLocals ==
    UNCHANGED <<runStatus, toolCalls, fnLocals, jsonLocals, notesLocals>>

\* statuses of a run object
RunStatuses ==
    {"queued", "in_progress", "requires_action", "cancelling", "cancelled",
     "failed", "completed", "incomplete", "expired"}

\* statuses at which create_and_poll stops polling and returns the run
PolledStatuses ==
    {"requires_action", "cancelled", "failed", "completed", "incomplete", "expired"}

(***************************************************************************)
(* demonstrate_json_mode                                                    *)
(***************************************************************************)
\* lines 203-210: client.beta.threads.create
JsonCreateThread ==
    /\ pc = "json_thread"
    /\ requests' = requests \cup {"threads.create"}
    /\ printed' = printed \cup {"json_mode_banner"}
    /\ \E ok \in BOOLEAN :
        IF ok THEN pc' = "json_run" /\ exc' = exc
        ELSE RaiseInTry("APIError")
    /\ KeepLocals
    /\ UNCHANGED <<bootstrap, env, files, clients, exitCode, tools, assistant_id, results>>

\* lines 213-220 and 252-254: create_and_poll, then the branch on run.status
JsonRun ==
    /\ pc = "json_run"
    /\ requests' = requests \cup {"runs.create_and_poll"}
    /\ \/ /\ RaiseInTry("APIError")
          /\ DropLocals
          /\ UNCHANGED <<printed, json_result>>
       \/ \E status \in PolledStatuses :
            /\ exc' = exc
            /\ IF status = "completed"
               THEN /\ runStatus' = status
                    /\ pc' = "json_messages"
                    /\ UNCHANGED <<printed, json_result, toolCalls, fnLocals,
                                   jsonLocals, notesLocals>>
               ELSE /\ printed' = printed \cup {"run_failed"}
                    /\ json_result' = NoneResult
                    /\ pc' = "fn_update"
                    /\ DropLocals
    /\ UNCHANGED <<bootstrap, env, files, clients, exitCode, tools, assistant_id,
                   function_result, notes_result>>

\* lines 221-225: messages.list and messages.data[0].content[0].text.value
JsonMessages ==
    /\ pc = "json_messages"
    /\ requests' = requests \cup {"messages.list"}
    /\ \/ /\ RaiseInTry("APIError")
          /\ DropLocals
          /\ printed' = printed
       \/ \E text \in Responses :
            /\ response_content' = text
            /\ printed' = printed \cup {"raw_response"}
            /\ pc' = "json_clean"
            /\ UNCHANGED <<exc, runStatus, toolCalls, fnLocals, cleaned_content,
                           notesLocals>>
    /\ UNCHANGED <<bootstrap, env, files, clients, exitCode, tools, assistant_id, results>>

\* lines 229-234: remove the markdown fences
JsonClean ==
    /\ pc = "json_clean"
    /\ cleaned_content' = StripFences(response_content)
    /\ pc' = "json_parse"
    /\ UNCHANGED <<bootstrap, env, files, clients, requests, printed, exitCode, exc, tools,
                   assistant_id, results, runStatus, toolCalls, fnLocals,
                   response_content, notesLocals>>

\* the members of a WeatherAlert whose value must be a string
AlertStrFields == {Location, Severity, AlertType, Description, Advice}

IsStrText(text) == text # <<>> /\ text[1] = "\""

\* WeatherAlert(**json_data): every field is required, expires_at may be null
WeatherAlertValid(pairs) ==
    /\ \A f \in AlertStrFields :
        \E k \in 1..Len(pairs) : pairs[k][1] = Q(f) /\ IsStrText(pairs[k][2])
    /\ \E k \in 1..Len(pairs) :
        /\ pairs[k][1] = Q(ExpiresAt)
        /\ (IsStrText(pairs[k][2]) \/ pairs[k][2] = NullText)

\* lines 236-251: json.loads, the pydantic validation and the return
JsonParse ==
    /\ pc = "json_parse"
    /\ LET json_data == Loads(cleaned_content)
       IN  IF ~json_data.ok
           THEN /\ printed' = printed \cup {"invalid_json"}
                /\ json_result' = NoneResult
                /\ pc' = "fn_update"
                /\ exc' = exc
           ELSE IF json_data.kind # "obj"
           THEN /\ printed' = printed \cup {"valid_json"}
                /\ json_result' = json_result
                /\ RaiseInTry("AttributeError")
           ELSE /\ json_result' =
                      [kind |-> IF WeatherAlertValid(json_data.pairs)
                                THEN "WeatherAlert" ELSE "dict",
                       text |-> json_data.text]
                /\ printed' = printed \cup
                      {"valid_json",
                       IF WeatherAlertValid(json_data.pairs)
                       THEN "alert_validated" ELSE "alert_validation_failed"}
                /\ pc' = "fn_update"
                /\ exc' = exc
    /\ DropLocals
    /\ UNCHANGED <<bootstrap, env, files, clients, requests, exitCode, tools, assistant_id,
                   function_result, notes_result>>

(***************************************************************************)
(* compare_approaches: what it prints for the two results                   *)
(***************************************************************************)
\* truth value of a result: None and the empty dict are false
Truthy(result) ==
    \/ result.kind \in {"WeatherAlert", "TechAnalysis"}
    \/ result.kind = "dict" /\ result.text # <<"{", "}">>

compare_approaches(json, function) ==
    {"comparison", "takeaways"}
    \cup { IF ~Truthy(json) THEN "json_no_result"
           ELSE IF json.kind = "WeatherAlert" THEN "json_success"
           ELSE "json_failed" }
    \cup { IF ~Truthy(function) THEN "function_no_result"
           ELSE IF function.kind = "TechAnalysis" THEN "function_success"
           ELSE "function_failed" }

(***************************************************************************)
(* demonstrate_function_tools_strict                                        *)
(***************************************************************************)
\* cap on the iterations of the wait loop explored
MaxPolls == 3

WaitStatusesNoInProgress == {"queued", "requires_action"}

WaitStatusesOnlyQueued == {"queued"}

\* line 377: the statuses on which the wait loop goes on
WaitStatuses == {"queued", "in_progress", "requires_action"}

NoArguments == NoData

\* tool calls the run may ask for
FnToolCalls ==
    LET call(name) == [name |-> name, arguments |-> NoArguments]
    IN  { <<>>,
          <<call("analyze_tech_concept")>>,
          <<call("other")>>,
          <<call("other"), call("analyze_tech_concept")>>,
          <<call("analyze_tech_concept"), call("analyze_tech_concept")>> }

\* lines 331-363: one output per analyze_tech_concept call, identified by
\* the position of the call
ToolOutputs(tool_calls) ==
    LET ids == [i \in 1..Len(tool_calls) |-> i]
        wanted(i) == tool_calls[i].name = "analyze_tech_concept"
        chosen == SelectSeq(ids, wanted)
    IN  [k \in 1..Len(chosen) |-> [tool_call_id |-> chosen[k], output |-> "response"]]

\* lines 405-406 followed by main lines 469-475: the function returns None,
\* compare_approaches prints and main goes on to the exam notes
FnReturn(result, messages) ==
    /\ function_result' = result
    /\ printed' = printed \cup messages \cup compare_approaches(json_result, result)
                          \cup {"launching_notes"}
    /\ pc' = "notes_update"
    /\ DropLocals

\* lines 305-311: install the function tool next to file_search
FnUpdateTools ==
    /\ pc = "fn_update"
    /\ requests' = requests \cup {"assistants.update"}
    /\ printed' = printed \cup {"function_tools_banner"}
    /\ \E ok \in BOOLEAN :
        IF ok
        THEN /\ tools' = <<"file_search", "analyze_tech_concept">>
             /\ pc' = "fn_thread"
             /\ exc' = exc
        ELSE /\ RaiseInTry("APIError")
             /\ tools' = tools
    /\ KeepLocals
    /\ UNCHANGED <<bootstrap, env, files, clients, exitCode, assistant_id, results>>

\* lines 314-319: client.beta.threads.create
FnCreateThread ==
    /\ pc = "fn_thread"
    /\ requests' = requests \cup {"threads.create"}
    /\ \E ok \in BOOLEAN :
        IF ok THEN pc' = "fn_run" /\ exc' = exc
        ELSE RaiseInTry("APIError")
    /\ KeepLocals
    /\ UNCHANGED <<bootstrap, env, files, clients, printed, exitCode, tools, assistant_id, results>>

\* lines 322-363: create_and_poll, the branch on run.status and the
\* construction of tool_outputs
FnRun ==
    /\ pc = "fn_run"
    /\ requests' = requests \cup {"runs.create_and_poll"}
    /\ \/ /\ RaiseInTry("APIError")
          /\ DropLocals
          /\ UNCHANGED <<printed, function_result>>
       \/ \E status \in PolledStatuses \ {"requires_action"} :
            /\ FnReturn(NoneResult, {"run_failed"})
            /\ exc' = exc
       \/ \E calls \in FnToolCalls :
            /\ runStatus' = "requires_action"
            /\ toolCalls' = calls
            /\ tool_outputs' = ToolOutputs(calls)
            /\ pc' = "fn_submit"
            /\ UNCHANGED <<exc, printed, function_result, polls, sleeps,
                           jsonLocals, notesLocals>>
    /\ UNCHANGED <<bootstrap, env, files, clients, exitCode, tools, assistant_id,
                   json_result, notes_result>>

\* lines 366-370: submit_tool_outputs returns the run
FnSubmit ==
    /\ pc = "fn_submit"
    /\ requests' = requests \cup {"runs.submit_tool_outputs"}
    /\ \/ /\ RaiseInTry("APIError")
          /\ DropLocals
       \/ \E status \in RunStatuses :
            /\ runStatus' = status
            /\ pc' = "fn_retrieve"
            /\ UNCHANGED <<exc, toolCalls, fnLocals, jsonLocals, notesLocals>>
    /\ UNCHANGED <<bootstrap, env, files, clients, printed, exitCode, tools, assistant_id, results>>

\* lines 373-376: the first retrieve
FnRetrieve ==
    /\ pc = "fn_retrieve"
    /\ requests' = requests \cup {"runs.retrieve"}
    /\ \/ /\ RaiseInTry("APIError")
          /\ DropLocals
       \/ \E status \in RunStatuses :
            /\ runStatus' = status
            /\ pc' = "fn_loop"
            /\ UNCHANGED <<exc, toolCalls, fnLocals, jsonLocals, notesLocals>>
    /\ UNCHANGED <<bootstrap, env, files, clients, printed, exitCode, tools, assistant_id, results>>

\* lines 377-385: one iteration of the wait loop: sleep, retrieve, print,
\* and break when the run requires action
FnPoll ==
    /\ pc = "fn_loop"
    /\ runStatus \in WaitStatuses
    /\ polls < MaxPolls
    /\ requests' = requests \cup {"runs.retrieve"}
    /\ \/ /\ RaiseInTry("APIError")
          /\ DropLocals
          /\ printed' = printed
       \/ \E status \in RunStatuses :
            /\ sleeps' = sleeps + 1
            /\ polls' = polls + 1
            /\ runStatus' = status
            /\ printed' = printed \cup
                  (IF status = "requires_action"
                   THEN {"status", "requires_action"} ELSE {"status"})
            /\ pc' = IF status = "requires_action" THEN "fn_after_loop" ELSE "fn_loop"
            /\ UNCHANGED <<exc, toolCalls, tool_outputs, jsonLocals, notesLocals>>
    /\ UNCHANGED <<bootstrap, env, files, clients, exitCode, tools, assistant_id, results>>

\* line 377: the loop condition is false
FnLoopExit ==
    /\ pc = "fn_loop"
    /\ runStatus \notin WaitStatuses
    /\ pc' = "fn_after_loop"
    /\ KeepLocals
    /\ UNCHANGED <<bootstrap, env, files, clients, requests, printed, exitCode, exc, tools,
                   assistant_id, results>>

\* lines 387 and 405-406: after the loop
FnAfterLoop ==
    /\ pc = "fn_after_loop"
    /\ IF runStatus = "completed"
       THEN /\ pc' = "fn_messages"
            /\ KeepLocals
            /\ UNCHANGED <<printed, function_result>>
       ELSE FnReturn(NoneResult, {"run_failed"})
    /\ UNCHANGED <<bootstrap, env, files, clients, requests, exitCode, exc, tools,
                   assistant_id, json_result, notes_result>>

\* lines 388-403: messages.list, then TechAnalysis built from tool_outputs[0];
\* with no output the handler of the IndexError raises it again
FnMessages ==
    /\ pc = "fn_messages"
    /\ requests' = requests \cup {"messages.list"}
    /\ \/ /\ RaiseInTry("APIError")
          /\ DropLocals
          /\ UNCHANGED <<printed, function_result>>
       \/ /\ tool_outputs = <<>>
          /\ printed' = printed \cup {"function_response", "validation_failed"}
          /\ RaiseInTry("IndexError")
          /\ DropLocals
          /\ function_result' = function_result
       \/ /\ tool_outputs # <<>>
          /\ FnReturn([kind |-> "TechAnalysis", text |-> <<>>],
                      {"function_response", "schema_validated"})
          /\ exc' = exc
    /\ UNCHANGED <<bootstrap, env, files, clients, exitCode, tools, assistant_id,
                   json_result, notes_result>>

(***************************************************************************)
(* The note model (Note, ExamNotes) and the payloads of save_exam_notes.    *)
(* A raw note is a function from the member names present to their values;  *)
(* page_ref is {} for None and {n} for the integer n.                       *)
(***************************************************************************)
\* Field(..., ge=1, le=10)
IdMin == 1

IdMax == 10

\* Field(..., max_length=150)
SummaryMaxLength == 150

None == {}

Chars(n) == [i \in 1..n |-> "x"]

PageRefDefaultsToZero(raw) == IF "page_ref" \in DOMAIN raw THEN raw.page_ref ELSE {0}

\* page_ref: int | None = Field(None)
PageRef(raw) == IF "page_ref" \in DOMAIN raw THEN raw.page_ref ELSE None

NoteValidIdOffByOne(raw) ==
    /\ {"id", "heading", "summary"} \subseteq DOMAIN raw
    /\ raw.id >= IdMin
    /\ raw.id <= IdMax + 1
    /\ Len(raw.summary) <= SummaryMaxLength

\* the constraints of Note on a raw note
NoteValid(raw) ==
    /\ {"id", "heading", "summary"} \subseteq DOMAIN raw
    /\ raw.id >= IdMin
    /\ raw.id <= IdMax
    /\ Len(raw.summary) <= SummaryMaxLength

\* Note(**raw) for a raw note that validates
Note(raw) ==
    [id |-> raw.id, heading |-> raw.heading, summary |-> raw.summary,
     page_ref |-> PageRef(raw)]

\* ExamNotes(**notes_data): notes is a List[Note] of any length
ExamNotesValid(data) ==
    /\ data.shape = "dict"
    /\ \A i \in 1..Len(data.notes) : NoteValid(data.notes[i])

ExamNotes(data) ==
    [valid |-> TRUE, notes |-> [i \in 1..Len(data.notes) |-> Note(data.notes[i])]]

\* largest number of notes in a payload
MaxNotes == 11

Without(raw, name) == [k \in DOMAIN raw \ {name} |-> raw[k]]

\* a well-formed note for position i
BaseNote(i) ==
    [id |-> ((i - 1) % IdMax) + 1, heading |-> "h", summary |-> Chars(3),
     page_ref |-> {i}]

\* the notes the remote model may put in place of a well-formed one
NoteVariants(i) ==
    { [BaseNote(i) EXCEPT !.id = IdMin - 1],
      [BaseNote(i) EXCEPT !.id = IdMax + 1],
      [BaseNote(i) EXCEPT !.summary = Chars(SummaryMaxLength)],
      [BaseNote(i) EXCEPT !.summary = Chars(SummaryMaxLength + 1)],
      [BaseNote(i) EXCEPT !.page_ref = None],
      Without(BaseNote(i), "id"),
      Without(BaseNote(i), "heading"),
      Without(BaseNote(i), "summary"),
      Without(BaseNote(i), "page_ref") }

NoteLists ==
    UNION { {[i \in 1..n |-> BaseNote(i)]}
            \cup UNION { { [i \in 1..n |-> IF i = k THEN v ELSE BaseNote(i)] :
                              v \in NoteVariants(k) } : k \in 1..n }
            : n \in 0..MaxNotes }

\* what json.loads makes of tool_call.function.arguments: a JSONDecodeError,
\* a value that is not a dict, a dict without notes, or a dict with notes
Arguments ==
    { [parsed |-> FALSE, shape |-> "none", notes |-> <<>>],
      [parsed |-> TRUE, shape |-> "list", notes |-> <<>>],
      [parsed |-> TRUE, shape |-> "dict_without_notes", notes |-> <<>>] }
    \cup { [parsed |-> TRUE, shape |-> "dict", notes |-> ns] : ns \in NoteLists }

NotesToolCalls ==
    LET other == [name |-> "other", arguments |-> NoArguments]
        save(a) == [name |-> "save_exam_notes", arguments |-> a]
    IN  { <<>>, <<other>> }
        \cup { <<save(a)>> : a \in Arguments }
        \cup { <<other, save(a)>> : a \in Arguments }

(***************************************************************************)
(* generate_exam_notes                                                      *)
(***************************************************************************)
\* lines 130-136: install save_exam_notes next to file_search
NotesUpdateTools ==
    /\ pc = "notes_update"
    /\ requests' = requests \cup {"assistants.update"}
    /\ printed' = printed \cup {"notes_banner"}
    /\ \E ok \in BOOLEAN :
        IF ok
        THEN /\ tools' = <<"file_search", "save_exam_notes">>
             /\ pc' = "notes_thread"
             /\ exc' = exc
        ELSE /\ RaiseInTry("APIError")
             /\ tools' = tools
    /\ KeepLocals
    /\ UNCHANGED <<bootstrap, env, files, clients, exitCode, assistant_id, results>>

\* lines 139-150: client.beta.threads.create with the uploaded file attached
NotesCreateThread ==
    /\ pc = "notes_thread"
    /\ requests' = requests \cup {"threads.create"}
    /\ \E ok \in BOOLEAN :
        IF ok THEN pc' = "notes_run" /\ exc' = exc
        ELSE RaiseInTry("APIError")
    /\ KeepLocals
    /\ UNCHANGED <<bootstrap, env, files, clients, printed, exitCode, tools, assistant_id, results>>

\* main lines 477-482 after generate_exam_notes has returned
NotesReturn(result, messages) ==
    /\ notes_result' = result
    /\ printed' = printed \cup messages \cup {"lab_complete"}
    /\ pc' = "finally"
    /\ DropLocals

\* lines 153-161 and 175-179: create_and_poll and the branch on run.status
NotesRun ==
    /\ pc = "notes_run"
    /\ requests' = requests \cup {"runs.create_and_poll"}
    /\ \/ /\ RaiseInTry("APIError")
          /\ DropLocals
          /\ UNCHANGED <<printed, notes_result>>
       \/ \E status \in PolledStatuses \ {"requires_action"} :
            /\ NotesReturn(NoneNotes, {"run_failed"})
            /\ exc' = exc
       \/ \E calls \in NotesToolCalls :
            /\ runStatus' = "requires_action"
            /\ toolCalls' = calls
            /\ pc' = "notes_calls"
            /\ UNCHANGED <<exc, printed, notes_result, fnLocals, jsonLocals,
                           notesLocals>>
    /\ UNCHANGED <<bootstrap, env, files, clients, exitCode, tools, assistant_id,
                   json_result, function_result>>

\* positions of the save_exam_notes calls
SaveCalls(tool_calls) ==
    {i \in 1..Len(tool_calls) : tool_calls[i].name = "save_exam_notes"}

FirstSaveCall(tool_calls) ==
    tool_calls[CHOOSE i \in SaveCalls(tool_calls) :
                  \A j \in SaveCalls(tool_calls) : i <= j]

\* lines 162-167: the first save_exam_notes call is parsed and validated.
\* Without such a call the loop ends, line 181 prints the success message
\* and line 182 reads exam_notes, which was never bound.
NotesValidate ==
    /\ pc = "notes_calls"
    /\ IF SaveCalls(toolCalls) = {}
       THEN /\ printed' = printed \cup {"notes_success"}
            /\ RaiseInTry("UnboundLocalError")
            /\ DropLocals
       ELSE IF ~FirstSaveCall(toolCalls).arguments.parsed
       THEN /\ RaiseInTry("JSONDecodeError")
            /\ DropLocals
            /\ printed' = printed
       ELSE /\ notes_data' = FirstSaveCall(toolCalls).arguments
            /\ exam_notes' =
                  IF ExamNotesValid(FirstSaveCall(toolCalls).arguments)
                  THEN ExamNotes(FirstSaveCall(toolCalls).arguments)
                  ELSE NoExamNotes
            /\ pc' = "notes_validated"
            /\ UNCHANGED <<exc, printed, runStatus, toolCalls, fnLocals, jsonLocals>>
    /\ UNCHANGED <<bootstrap, env, files, clients, requests, exitCode, tools, assistant_id,
                   results>>

\* lines 168-174: print and return the validated notes, or the raw payload
\* when the validation failed
NotesFinish ==
    /\ pc = "notes_validated"
    /\ IF exam_notes.valid
       THEN NotesReturn([kind |-> "ExamNotes", data |-> NoData,
                         notes |-> exam_notes.notes], {"notes_success"})
       ELSE NotesReturn([kind |-> "raw", data |-> notes_data, notes |-> <<>>],
                        {"validation_failed"})
    /\ UNCHANGED <<bootstrap, env, files, clients, requests, exitCode, exc, tools,
                   assistant_id, json_result, function_result>>

(***************************************************************************)
(* main: the finally clause, lines 484-487                                  *)
(***************************************************************************)
FinallyOnlyWithoutException ==
    /\ pc = "finally"
    /\ pc' = "done"
    /\ IF exc # "none"
       THEN /\ exitCode' = 1
            /\ UNCHANGED <<requests, tools, printed, exc>>
       ELSE /\ requests' = requests \cup {"assistants.update"}
            /\ \E ok \in BOOLEAN :
                IF ok
                THEN /\ tools' = <<"file_search">>
                     /\ printed' = printed \cup {"tools_reset"}
                     /\ exc' = exc
                     /\ exitCode' = 0
                ELSE /\ tools' = tools
                     /\ printed' = printed
                     /\ exc' = "APIError"
                     /\ exitCode' = 1
    /\ KeepLocals
    /\ UNCHANGED <<bootstrap, env, files, clients, assistant_id, results>>

\* reset_assistant_tools, then main ends: normally, or with the exception
\* that was in flight, or with the one the reset raised
Finally ==
    /\ pc = "finally"
    /\ requests' = requests \cup {"assistants.update"}
    /\ pc' = "done"
    /\ \E ok \in BOOLEAN :
        IF ok
        THEN /\ tools' = <<"file_search">>
             /\ printed' = printed \cup {"tools_reset"}
             /\ exc' = exc
             /\ exitCode' = IF exc = "none" THEN 0 ELSE 1
        ELSE /\ tools' = tools
             /\ printed' = printed
             /\ exc' = "APIError"
             /\ exitCode' = 1
    /\ KeepLocals
    /\ UNCHANGED <<bootstrap, env, files, clients, assistant_id, results>>

Next ==
    \/ Main00
    \/ DocumentSetup
    \/ ModuleClient
    \/ Upload
    \/ Main02
    \/ JsonCreateThread
    \/ JsonRun
    \/ JsonMessages
    \/ JsonClean
    \/ JsonParse
    \/ FnUpdateTools
    \/ FnCreateThread
    \/ FnRun
    \/ FnSubmit
    \/ FnRetrieve
    \/ FnPoll
    \/ FnLoopExit
    \/ FnAfterLoop
    \/ FnMessages
    \/ NotesUpdateTools
    \/ NotesCreateThread
    \/ NotesRun
    \/ NotesValidate
    \/ NotesFinish
    \/ Finally

Spec == Init /\ [][Next]_vars

(***************************************************************************)
(* 00_init_assistant.py : create_or_update_assistant(client), started with  *)
(* a client already constructed.                                            *)
(***************************************************************************)
\* identifiers the remote service may give a new assistant
NewAssistantIds == {<<"a", "2">>, <<"a", "3">>, <<"a", "4">>}

\* the contents .assistant may have when the function is called
BootstrapFiles ==
    AssistantFiles \cup {[exists |-> TRUE, text |-> <<"a", "1">>],
                         [exists |-> TRUE, text |-> <<"\n">>],
                         [exists |-> TRUE, text |-> <<"\f", "a", "1", "U+000B">>],
                         [exists |-> TRUE, text |-> <<"U+00A0", "\f">>]}

\* lines 38-43: the stripped text of .assistant, or None (here <<>>)
load_assistant_id(assistant_file) ==
    IF assistant_file.exists THEN Strip(assistant_file.text) ELSE <<>>

save_assistant_id_not_written(assistant_file, id) == assistant_file

\* lines 45-49: write the identifier to .assistant
save_assistant_id(assistant_file, id) == [exists |-> TRUE, text |-> id]

BootstrapInit ==
    /\ script = "00"
    /\ pc = "coa_start"
    /\ apiKey = "set"
    /\ dataDir \in {"absent", "dir", "file"}
    /\ pdf \in {"absent", "%PDF-1.4"}
    /\ (dataDir # "dir" => pdf = "absent")
    /\ assistantFile \in BootstrapFiles
    /\ notesFile = [exists |-> FALSE, notes |-> <<>>]
    /\ clients = 1
    /\ requests = {}
    /\ printed = {}
    /\ exitCode = Running
    /\ exc = "none"
    /\ tools \in {<<"file_search">>, <<"file_search", "save_exam_notes">>}
    /\ assistant_id = <<>>
    /\ json_result = Unset
    /\ function_result = Unset
    /\ notes_result = NoNotes
    /\ runStatus = "none"
    /\ toolCalls = <<>>
    /\ tool_outputs = <<>>
    /\ polls = 0
    /\ sleeps = 0
    /\ response_content = <<>>
    /\ cleaned_content = <<>>
    /\ notes_data = NoData
    /\ exam_notes = NoExamNotes
    /\ assistant = <<>>
    /\ linked = NotLinked

\* lines 116-118: any exception is printed and the process exits with 1;
\* before holds what the try block printed before the statement that raised
CoaFailAfter(before) ==
    /\ printed' = printed \cup before \cup {"assistant_error"}
    /\ exitCode' = 1
    /\ pc' = "done"

\* a statement raises that is preceded by no print of its own
CoaFail == CoaFailAfter({})

untouched ==
    <<env, dataDir, pdf, notesFile, clients, exc, assistant_id, results,
      runStatus, toolCalls, fnLocals, jsonLocals, notesLocals>>

\* lines 53-91: update the assistant named in .assistant, or create one and
\* save its identifier
CoaAssistant ==
    /\ pc = "coa_start"
    /\ IF load_assistant_id(assistantFile) # <<>>
       THEN /\ requests' = requests \cup {"assistants.update"}
            /\ assistantFile' = assistantFile
            /\ \E ok \in BOOLEAN :
                IF ok
                THEN /\ assistant' = load_assistant_id(assistantFile)
                     /\ tools' = <<"file_search">>
                     /\ printed' = printed \cup {"updating", "updated", "details"}
                     /\ pc' = "coa_file"
                     /\ exitCode' = exitCode
                ELSE /\ CoaFailAfter({"updating"})
                     /\ UNCHANGED <<assistant, tools>>
       ELSE /\ requests' = requests \cup {"assistants.create"}
            /\ \/ /\ CoaFailAfter({"creating"})
                  /\ UNCHANGED <<assistant, tools, assistantFile>>
               \/ \E id \in NewAssistantIds :
                    /\ assistant' = id
                    /\ assistantFile' = save_assistant_id(assistantFile, id)
                    /\ tools' = <<"file_search">>
                    /\ printed' = printed \cup {"creating", "saved", "created", "details"}
                    /\ pc' = "coa_file"
                    /\ exitCode' = exitCode
    /\ UNCHANGED <<untouched, linked>>

\* lines 92-96: open ./data/topology.pdf and upload it
CoaUploadFile ==
    /\ pc = "coa_file"
    /\ IF pdf = "absent"
       THEN CoaFail /\ requests' = requests
       ELSE /\ requests' = requests \cup {"files.create"}
            /\ \E ok \in BOOLEAN :
                IF ok THEN pc' = "coa_store" /\ UNCHANGED <<printed, exitCode>>
                ELSE CoaFail
    /\ UNCHANGED <<untouched, assistantFile, assistant, tools, linked>>

\* line 99: client.vector_stores.create
CoaVectorStore ==
    /\ pc = "coa_store"
    /\ requests' = requests \cup {"vector_stores.create"}
    /\ \E ok \in BOOLEAN :
        IF ok THEN pc' = "coa_batch" /\ UNCHANGED <<printed, exitCode>>
        ELSE CoaFail
    /\ UNCHANGED <<untouched, assistantFile, assistant, tools, linked>>

\* lines 100-103: upload_and_poll returns the batch whatever its status
CoaUploadBatch ==
    /\ pc = "coa_batch"
    /\ requests' = requests \cup {"vector_stores.file_batches.upload_and_poll"}
    /\ \E ok \in BOOLEAN :
        IF ok THEN pc' = "coa_link" /\ UNCHANGED <<printed, exitCode>>
        ELSE CoaFail
    /\ UNCHANGED <<untouched, assistantFile, assistant, tools, linked>>

\* lines 106-114: link the vector store to the assistant and return it
CoaLink ==
    /\ pc = "coa_link"
    /\ requests' = requests \cup {"assistants.update(tool_resources)"}
    /\ \E ok \in BOOLEAN :
        IF ok
        THEN /\ linked' = [assistant |-> assistant, store |-> "Topology Store"]
             /\ pc' = "coa_returned"
             /\ UNCHANGED <<printed, exitCode>>
        ELSE /\ CoaFail
             /\ linked' = linked
    /\ UNCHANGED <<untouched, assistantFile, assistant, tools>>

BootstrapNext ==
    \/ CoaAssistant
    \/ CoaUploadFile
    \/ CoaVectorStore
    \/ CoaUploadBatch
    \/ CoaLink

BootstrapSpec == BootstrapInit /\ [][BootstrapNext]_vars

(***************************************************************************)
(* Properties                                                               *)
(***************************************************************************)
\* C1: for every valid JSON object wrapped in code fences, with or without
\* the json tag, the cleaned text parses to the same value as the object;
\* an unfenced valid JSON object is passed through unchanged.
C1_FenceStrippingRecoversJson ==
    pc = "json_parse" =>
        \A body \in ObjectBodies :
            /\ \A open \in {OpenTagged, OpenPlain} :
                 response_content = open \o body \o CloseFence
                    => Loads(cleaned_content) = Loads(body)
            /\ (response_content = body => cleaned_content = body)

\* C2 as stated: when the wait loop is exited, the last retrieved status is
\* none of queued, in_progress, requires_action.
C2_ExitLeavesInProgressSet ==
    pc = "fn_after_loop" => runStatus \notin {"queued", "in_progress", "requires_action"}

\* C2 amended: when the wait loop is exited without a remote call raising,
\* the last retrieved status is neither queued nor in_progress (it may be
\* requires_action, on which the loop breaks).
C2_ExitStatusNotPending ==
    pc = "fn_after_loop" => runStatus \notin {"queued", "in_progress"}

C2_BreakOnRequiresAction ==
    pc = "fn_after_loop" /\ polls > 0 /\ runStatus = "requires_action"

\* C3: when generate_exam_notes returns validated notes, they have been
\* written to data/exam_notes.json.
C3_NotesWrittenBeforeReturn ==
    notes_result.kind = "ExamNotes" =>
        notesFile.exists /\ notesFile.notes = notes_result.notes

\* C4: when the bootstrap script finishes normally it has created or updated
\* an assistant and .assistant holds its identifier.
C4_BootstrapStoresAssistant ==
    (script = "00" /\ pc = "done" /\ exitCode = 0) =>
        /\ requests \cap {"assistants.create", "assistants.update"} # {}
        /\ assistantFile.exists
        /\ Strip(assistantFile.text) # <<>>

\* C5: a payload is accepted as validated ExamNotes only with exactly ten
\* notes, and the success message is printed only for exactly ten.
C5_ExactlyTenNotes ==
    /\ exam_notes.valid => Len(exam_notes.notes) = 10
    /\ (notes_result.kind = "ExamNotes" /\ "notes_success" \in printed)
          => Len(notes_result.notes) = 10

\* the bounds of a revision note as the data model states them
C6_WithinBounds(raw) ==
    /\ "id" \in DOMAIN raw
    /\ raw.id \in 1..10
    /\ "heading" \in DOMAIN raw
    /\ "summary" \in DOMAIN raw
    /\ Len(raw.summary) <= 150

\* C6: generate_exam_notes returns a validated ExamNotes object only if
\* every note of the payload has an identifier in 1..10, a heading and a
\* summary of at most 150 characters; otherwise it returns the raw payload.
C6_ValidatedOnlyWithinBounds ==
    [][ (pc = "notes_validated" /\ pc' # pc) =>
          LET payload == FirstSaveCall(toolCalls).arguments
              allWithin == /\ payload.shape = "dict"
                           /\ \A i \in 1..Len(payload.notes) :
                                C6_WithinBounds(payload.notes[i])
          IN  /\ notes_result'.kind \in {"ExamNotes", "raw"}
              /\ (notes_result'.kind = "ExamNotes" => allWithin)
              /\ (~allWithin =>
                    notes_result' = [kind |-> "raw", data |-> payload, notes |-> <<>>])
      ]_vars

C6_RawPayloadReturned ==
    /\ notes_result.kind = "raw"
    /\ notes_result.data.shape = "dict"
    /\ \E i \in 1..Len(notes_result.data.notes) :
          /\ "summary" \in DOMAIN notes_result.data.notes[i]
          /\ Len(notes_result.data.notes[i].summary) = 151

\* C7: a note without page_ref is accepted and its page_ref is None; a note
\* with an integer page_ref keeps it.
C7_PageRefDefault ==
    (pc = "notes_validated" /\ notes_data.shape = "dict") =>
        /\ (\A i \in 1..Len(notes_data.notes) :
               C6_WithinBounds(notes_data.notes[i])) => exam_notes.valid
        /\ exam_notes.valid =>
              \A i \in 1..Len(notes_data.notes) :
                  IF "page_ref" \in DOMAIN notes_data.notes[i]
                  THEN exam_notes.notes[i].page_ref = notes_data.notes[i].page_ref
                  ELSE exam_notes.notes[i].page_ref = {}

C7_NoteWithoutPageRef ==
    /\ pc = "notes_validated"
    /\ exam_notes.valid
    /\ \E i \in 1..Len(notes_data.notes) :
          /\ "page_ref" \notin DOMAIN notes_data.notes[i]
          /\ exam_notes.notes[i].page_ref = {}
    /\ \E i \in 1..Len(notes_data.notes) :
          /\ "page_ref" \in DOMAIN notes_data.notes[i]
          /\ exam_notes.notes[i].page_ref = {i}

\* C8: with the API key missing, no client is constructed and no remote
\* request is issued, and the process ends with exit status 1 after
\* printing the missing-key message of get_client (the path data being a
\* directory or absent, so that the start-up itself does not fail).
C8_MissingKeyReported ==
    (KeyMissing /\ dataDir # "file") =>
        /\ clients = 0
        /\ requests = {}
        /\ (exitCode # Running => exitCode = 1 /\ "missing_key" \in printed)

\* C9: a failed remote operation in demonstrate_json_mode,
\* demonstrate_function_tools_strict or generate_exam_notes never leaves the
\* function as an exception: the finally clause of main, which follows the
\* three calls, is never entered with an exception in flight.
C9_FailureReturnsNone ==
    pc = "finally" => exc = "none"

\* C10: the document exists when the upload step is reached; it is the
\* sample file when it was missing, and an existing document is never
\* rewritten.
C10_DocumentEnsured ==
    [][ /\ (pdf # "absent" => pdf' = pdf)
        /\ (pdf = "absent" /\ pdf' # pdf => pdf' = SampleContent)
        /\ (pc' = "upload" => pdf' # "absent")
      ]_vars

C10_SampleWritten ==
    /\ script = "02"
    /\ pc = "upload"
    /\ pdf = SampleContent
    /\ "pdf_not_found" \in printed

(***************************************************************************)
(* The wait loop under the scheduling of the single thread that runs it:    *)
(* an iteration that can be taken is taken.                                 *)
(***************************************************************************)
LoopSpec == Spec /\ WF_vars(FnPoll) /\ WF_vars(FnLoopExit)

\* C11: the wait loop sleeps exactly once before every re-check, goes on for
\* as long as the re-checks return queued or in_progress, ends normally only
\* on a status other than these two, and does end once a retrieval has
\* returned a status outside the set of its condition.
C11_WaitLoop ==
    /\ [][ pc = "fn_loop" =>
             /\ (polls' = polls + 1 <=> sleeps' = sleeps + 1)
             /\ (polls' = polls + 1 /\ runStatus' \in {"queued", "in_progress"}
                   => pc' = "fn_loop")
             /\ (pc' = "fn_after_loop" => runStatus' \notin {"queued", "in_progress"})
         ]_vars
    /\ [](pc = "fn_loop" => sleeps = polls)
    /\ ((pc = "fn_loop" /\ runStatus \notin {"queued", "in_progress", "requires_action"})
          ~> pc # "fn_loop")

\* the loop is still running after as many re-checks as are explored
C11_StillWaiting ==
    /\ pc = "fn_loop"
    /\ polls = MaxPolls
    /\ sleeps = MaxPolls
    /\ runStatus = "in_progress"

\* main of script 02 has entered its try block (line 459 is printed right
\* before it) and has ended
MainEndedAfterTry == pc = "done" /\ "using_assistant" \in printed

\* C12 as stated: once main has entered its try block, the tool list of the
\* assistant is exactly [file_search] when main ends.
C12_ToolsResetOnEveryPath ==
    MainEndedAfterTry => tools = <<"file_search">>

\* C12 amended: on every path out of the try block the reset request is
\* issued before main ends; when it succeeds the tool list is exactly
\* [file_search]; when the reset request itself raises, main ends with that
\* exception and the installed tools may remain.
C12_ResetAttemptedOnEveryPath ==
    MainEndedAfterTry =>
        /\ "assistants.update" \in requests
        /\ ("tools_reset" \in printed => tools = <<"file_search">>)
        /\ ("tools_reset" \notin printed => exc = "APIError" /\ exitCode = 1)

\* a step raised after a function tool was installed, and the reset ran
C12_ResetAfterRaise ==
    /\ MainEndedAfterTry
    /\ "notes_banner" \in printed
    /\ "lab_complete" \notin printed
    /\ exc # "none"
    /\ "tools_reset" \in printed
    /\ tools = <<"file_search">>

\* C13: create_or_update_assistant updates and never creates when
\* .assistant holds a non-blank identifier, and otherwise creates and saves
\* the new identifier; when it returns, .assistant holds the identifier of
\* the returned assistant and a vector store is linked to that assistant;
\* when it does not return it has ended the process with exit status 1.
C13_CreateOrUpdate ==
    /\ [][ pc = "coa_start" =>
             IF assistantFile.exists /\ Strip(assistantFile.text) # <<>>
             THEN /\ requests' = {"assistants.update"}
                  /\ assistantFile' = assistantFile
             ELSE /\ requests' = {"assistants.create"}
                  /\ (pc' # "done" =>
                        assistantFile' = [exists |-> TRUE, text |-> assistant'])
         ]_vars
    /\ [](pc = "coa_returned" =>
             /\ assistant # <<>>
             /\ assistantFile.exists
             /\ Strip(assistantFile.text) = assistant
             /\ linked.assistant = assistant
             /\ linked.store # "none"
             /\ exitCode = Running
             /\ {"files.create", "vector_stores.create",
                 "vector_stores.file_batches.upload_and_poll",
                 "assistants.update(tool_resources)"} \subseteq requests
             /\ ~({"assistants.create", "assistants.update"} \subseteq requests))
    /\ [](pc = "done" =>
             exitCode = 1 /\ "assistant_error" \in printed /\ linked = NotLinked)

\* a new assistant was created, saved and linked
C13_CreatedAndLinked ==
    /\ pc = "coa_returned"
    /\ "assistants.create" \in requests
    /\ assistantFile.text = assistant
    /\ linked.assistant = assistant

====
